---- MODULE Spec2Model ----
(***************************************************************************)
(* Model of github.com/arl/gitstatus: the porcelain status parser, its     *)
(* header sub-parser, the diff-statistics extractor, the line counter, the *)
(* special-state detector, the newStatus orchestrator that runs the git    *)
(* queries one after the other, and the package-level env shared by        *)
(* concurrent callers.  Each component has its own specification.          *)
(*                                                                         *)
(* Strings and byte streams are sequences of one-character strings; the    *)
(* nil byte that terminates a record of `git status -z` is the element     *)
(* NUL.  Indices returned by the string helpers are Go's (0-based, -1 for  *)
(* "not found").                                                           *)
(***************************************************************************)
EXTENDS Integers, Sequences, FiniteSets, TLC

VARIABLES
    pin,      \* function under study: description of the input it is given
    pstream,  \* function under study: the bytes of the stream, for a parser
    ppc,      \* function under study: "ready" before the call, "done" after
    pres,     \* function under study: what it has filled or returned, once done
    pc,       \* newStatus: the query it is at, or "returned"
    running,  \* newStatus: the command of the current query is in flight
    ctxDone,  \* the caller's context is done
    home,     \* the process environment's HOME, or Unset
    env,      \* the package-level env value (empty, Go's nil slice, until first use)
    started,  \* the external commands started so far, with their environment
    por,      \* newStatus local: the Porcelain filled by the status query
    stats,    \* newStatus local: insertions and deletions of the diff query
    nstashed, \* newStatus local: the stash line count
    ret,      \* what newStatus returned: [isNil, st |-> Status, err |-> error]
    stat,     \* tree state: what os.Stat gives for each marker path under gitdir
    tstate,   \* tree state: what treeStateFromDir returned, "unset" before
    gpc,      \* concurrent callers: for each, the runAndParse call and the line it is at
    glocal,   \* concurrent callers: for each, the slice read from env for append
    cmdEnvs,  \* concurrent callers: the values of cmd.Env the commands were given
    envInits  \* concurrent callers: how many times the `env == nil` block was entered

pvars == <<pin, pstream, ppc, pres>>

svars == <<pc, running, ctxDone, home, env, started, por, stats, nstashed, ret>>

tvars == <<stat, tstate>>

evars == <<gpc, glocal, cmdEnvs, envInits>>

vars == <<pin, pstream, ppc, pres,
          pc, running, ctxDone, home, env, started, por, stats, nstashed, ret,
          stat, tstate, gpc, glocal, cmdEnvs, envInits>>

-----------------------------------------------------------------------------
(* Bounds of the model.                                                    *)

MaxBranchLen == 2
MaxCount == 11
MaxFiles == 1
MaxStat == 1
MaxStash == 1
MaxRepeat == 2
MaxRecords == 2
MaxFilesChanged == 2
NumCallers == 2
MaxStreamLen == 4

-----------------------------------------------------------------------------
(* Go string helpers (package strings / bytes), on sequences of chars.     *)

NUL == "NUL"
NL == "\n"
SP == " "

Slice(s, i, j) == SubSeq(s, i + 1, j)

SliceFrom(s, i) == SubSeq(s, i + 1, Len(s))

HasPrefix(s, pre) ==
    /\ Len(pre) <= Len(s)
    /\ SubSeq(s, 1, Len(pre)) = pre

Index(s, sub) ==
    LET hits == {i \in 0..(Len(s) - Len(sub)) : SubSeq(s, i + 1, i + Len(sub)) = sub}
    IN IF hits = {} THEN -1 ELSE CHOOSE i \in hits : \A k \in hits : i <= k

IndexByte(s, c) == Index(s, <<c>>)

Contains(s, sub) == Index(s, sub) # -1

RECURSIVE TrimLeft(_, _)
TrimLeft(s, cutset) ==
    IF s # <<>> /\ Head(s) \in cutset THEN TrimLeft(Tail(s), cutset) ELSE s

RECURSIVE TrimRight(_, _)
TrimRight(s, cutset) ==
    IF s # <<>> /\ s[Len(s)] \in cutset
    THEN TrimRight(SubSeq(s, 1, Len(s) - 1), cutset)
    ELSE s

Trim(s, cutset) == TrimRight(TrimLeft(s, cutset), cutset)

-----------------------------------------------------------------------------
(* Decimal integers.                                                       *)

DigitChars == {"0", "1", "2", "3", "4", "5", "6", "7", "8", "9"}

DigitVal(c) ==
    CASE c = "0" -> 0 [] c = "1" -> 1 [] c = "2" -> 2 [] c = "3" -> 3
      [] c = "4" -> 4 [] c = "5" -> 5 [] c = "6" -> 6 [] c = "7" -> 7
      [] c = "8" -> 8 [] c = "9" -> 9

RECURSIVE DecVal(_)
DecVal(ds) ==
    IF ds = <<>> THEN 0
    ELSE 10 * DecVal(SubSeq(ds, 1, Len(ds) - 1)) + DigitVal(ds[Len(ds)])

\* strconv.ParseInt(tok, 10, 64): an optional sign, then decimal digits only
\* (an underscore is a syntax error in base 10).  No token of the model is
\* long enough to leave the 64-bit range.
ParseInt(tok) ==
    LET signed == tok # <<>> /\ Head(tok) \in {"+", "-"}
        ds == IF signed THEN Tail(tok) ELSE tok
    IN IF ds = <<>> \/ \E i \in 1..Len(ds) : ds[i] \notin DigitChars
       THEN [ok |-> FALSE, val |-> 0]
       ELSE [ok |-> TRUE,
             val |-> IF signed /\ Head(tok) = "-" THEN 0 - DecVal(ds) ELSE DecVal(ds)]

-----------------------------------------------------------------------------
(* fmt.Sscanf for the formats parseUpstream uses: literal characters, a    *)
(* space, and the verb %d.  The result holds the values stored so far (a   *)
(* value scanned before a later failure stays stored in its operand) and   *)
(* whether Sscanf returned an error.                                       *)

RECURSIVE SkipSpaces(_, _)
SkipSpaces(in, j) ==
    IF j <= Len(in) /\ in[j] = SP THEN SkipSpaces(in, j + 1) ELSE j

RECURSIVE AcceptRun(_, _, _)
AcceptRun(in, j, set) ==
    IF j <= Len(in) /\ in[j] \in set THEN AcceptRun(in, j + 1, set) ELSE j

RECURSIVE ScanRun(_, _, _, _, _)
ScanRun(format, i, in, j, vals) ==
    IF i > Len(format) THEN [vals |-> vals, err |-> FALSE]
    ELSE IF format[i] = SP THEN
        \* a space of the format matches one or more spaces, or end of input
        IF j > Len(in) THEN ScanRun(format, i + 1, in, j, vals)
        ELSE IF in[j] # SP THEN [vals |-> vals, err |-> TRUE]
        ELSE ScanRun(format, i + 1, in, SkipSpaces(in, j), vals)
    ELSE IF format[i] = "%" THEN
        \* scanInt: skip spaces, optional sign, digits or underscores, ParseInt
        LET j1 == SkipSpaces(in, j)
            j2 == IF j1 <= Len(in) /\ in[j1] \in {"+", "-"} THEN j1 + 1 ELSE j1
            j3 == AcceptRun(in, j2, DigitChars \cup {"_"})
            n  == ParseInt(SubSeq(in, j1, j3 - 1))
        IN IF j1 > Len(in) \/ j2 > Len(in) \/ j3 = j2 \/ ~n.ok
           THEN [vals |-> vals, err |-> TRUE]
           ELSE ScanRun(format, i + 2, in, j3, Append(vals, n.val))
    ELSE
        \* a literal must be read and must match
        IF j > Len(in) \/ in[j] # format[i] THEN [vals |-> vals, err |-> TRUE]
        ELSE ScanRun(format, i + 1, in, j + 1, vals)

Sscanf(in, format) == ScanRun(format, 1, in, 1, <<>>)

S_ahead == <<"a", "h", "e", "a", "d">>
S_behind == <<"b", "e", "h", "i", "n", "d">>
S_dots == <<".", ".", ".">>
\* Variants of the formats, as a slip in the format string would leave them.
FmtBehind_CopiedFromAhead == S_ahead \o <<SP, "%", "d">>
FmtAheadBehind_NoComma == S_ahead \o <<SP, "%", "d", SP>> \o S_behind \o <<SP, "%", "d">>

FmtAhead == S_ahead \o <<SP, "%", "d">>
FmtBehind == S_behind \o <<SP, "%", "d">>
FmtAheadBehind == S_ahead \o <<SP, "%", "d", ",", SP>> \o S_behind \o <<SP, "%", "d">>

-----------------------------------------------------------------------------
(* Porcelain: the header sub-parser.                                       *)

NoErr == "nil"
errUnexpectedHeader == "unexpected header format"
errParseAheadBehind == "can't parse ahead/behind count"
errLastLine == "last line doesn't end with a nil byte"

NewPorcelain ==
    [NumModified |-> 0, NumConflicts |-> 0, NumUntracked |-> 0, NumStaged |-> 0,
     IsDetached |-> FALSE, IsInitial |-> FALSE,
     LocalBranch |-> <<>>, RemoteBranch |-> <<>>,
     AheadCount |-> 0, BehindCount |-> 0]

\* The errors newStatus returns: the command whose run or parse failed (empty
\* for an error that is not wrapped) and the cause.  NilError is Go's nil.
NilError == [exec |-> "", cause |-> NoErr]

\* fmt.Errorf("exec %s '%v': %w", ...)
WrapExec(q, cause) == [exec |-> q, cause |-> cause]

\* &Status{Porcelain: por}: every other field has its zero value
\* HEAD is given the name of the branch.
InitialStatus_HeadIsBranch(p) ==
    [Porcelain |-> p, NumStashed |-> 0, HEAD |-> p.LocalBranch, State |-> "Default",
     IsClean |-> FALSE, Insertions |-> 0, Deletions |-> 0]

InitialStatus(p) ==
    [Porcelain |-> p, NumStashed |-> 0, HEAD |-> <<>>, State |-> "Default",
     IsClean |-> FALSE, Insertions |-> 0, Deletions |-> 0]

parseUpstream(p, s) ==
    LET pos == IndexByte(s, SP)
        t == Trim(SliceFrom(s, pos + 1), {"[", "]"})
        hasAhead == Contains(t, S_ahead)
        hasBehind == Contains(t, S_behind)
        p1 == [p EXCEPT !.RemoteBranch = Slice(s, 0, pos)]
        both == Sscanf(t, FmtAheadBehind)
        one == Sscanf(t, IF hasAhead THEN FmtAhead ELSE FmtBehind)
    IN IF pos = -1 THEN [p |-> [p EXCEPT !.RemoteBranch = s], err |-> NoErr]
       ELSE IF hasAhead /\ hasBehind THEN
           [p |-> [p1 EXCEPT
                     !.AheadCount = IF Len(both.vals) >= 1 THEN both.vals[1] ELSE @,
                     !.BehindCount = IF Len(both.vals) >= 2 THEN both.vals[2] ELSE @],
            err |-> IF both.err THEN errParseAheadBehind ELSE NoErr]
       ELSE IF hasAhead THEN
           [p |-> [p1 EXCEPT
                     !.AheadCount = IF Len(one.vals) >= 1 THEN one.vals[1] ELSE @],
            err |-> IF one.err THEN errParseAheadBehind ELSE NoErr]
       ELSE IF hasBehind THEN
           [p |-> [p1 EXCEPT
                     !.BehindCount = IF Len(one.vals) >= 1 THEN one.vals[1] ELSE @],
            err |-> IF one.err THEN errParseAheadBehind ELSE NoErr]
       ELSE [p |-> p1, err |-> errParseAheadBehind]

\* The wording git used for the same headers before it changed them.
initialPrefix_OldWording ==
    <<"#", "#", SP, "I", "n", "i", "t", "i", "a", "l", SP, "c", "o", "m", "m", "i", "t", SP,
      "o", "n", SP>>

detachedStr_OldWording ==
    <<"#", "#", SP, "H", "E", "A", "D", SP, "(", "d", "e", "t", "a", "c", "h", "e", "d", ")">>

initialPrefix ==
    <<"#", "#", SP, "N", "o", SP, "c", "o", "m", "m", "i", "t", "s", SP,
      "y", "e", "t", SP, "o", "n", SP>>

detachedStr ==
    <<"#", "#", SP, "H", "E", "A", "D", SP, "(", "n", "o", SP,
      "b", "r", "a", "n", "c", "h", ")">>

\* parseHeader with the branch name cut one byte too early.
parseHeader_OffByOne(p, line) ==
    LET pos == Index(line, S_dots)
    IN IF line = detachedStr THEN [p |-> [p EXCEPT !.IsDetached = TRUE], err |-> NoErr]
       ELSE IF HasPrefix(line, initialPrefix) THEN
           [p |-> [p EXCEPT !.IsInitial = TRUE,
                            !.LocalBranch = SliceFrom(line, Len(initialPrefix))],
            err |-> NoErr]
       ELSE IF Len(line) < 4 THEN [p |-> p, err |-> errUnexpectedHeader]
       ELSE IF pos = -1 THEN
           IF IndexByte(SliceFrom(line, 3), SP) # -1
           THEN [p |-> p, err |-> errUnexpectedHeader]
           ELSE [p |-> [p EXCEPT !.LocalBranch = SliceFrom(line, 2)], err |-> NoErr]
       ELSE [p |-> parseUpstream([p EXCEPT !.LocalBranch = Slice(line, 3, pos)],
                                 SliceFrom(line, pos + 3)).p,
             err |-> NoErr]

\* parseHeader without the check that a bare branch name holds no space.
parseHeader_NoSpaceCheck(p, line) ==
    LET pos == Index(line, S_dots)
    IN IF line = detachedStr THEN [p |-> [p EXCEPT !.IsDetached = TRUE], err |-> NoErr]
       ELSE IF HasPrefix(line, initialPrefix) THEN
           [p |-> [p EXCEPT !.IsInitial = TRUE,
                            !.LocalBranch = SliceFrom(line, Len(initialPrefix))],
            err |-> NoErr]
       ELSE IF Len(line) < 4 THEN [p |-> p, err |-> errUnexpectedHeader]
       ELSE IF pos = -1 THEN
           [p |-> [p EXCEPT !.LocalBranch = SliceFrom(line, 3)], err |-> NoErr]
       ELSE [p |-> parseUpstream([p EXCEPT !.LocalBranch = Slice(line, 3, pos)],
                                 SliceFrom(line, pos + 3)).p,
             err |-> NoErr]

\* The value parseUpstream returns is dropped by the caller: only the
\* fields it has set are kept.
parseHeader(p, line) ==
    LET pos == Index(line, S_dots)
    IN IF line = detachedStr THEN [p |-> [p EXCEPT !.IsDetached = TRUE], err |-> NoErr]
       ELSE IF HasPrefix(line, initialPrefix) THEN
           [p |-> [p EXCEPT !.IsInitial = TRUE,
                            !.LocalBranch = SliceFrom(line, Len(initialPrefix))],
            err |-> NoErr]
       ELSE IF Len(line) < 4 THEN [p |-> p, err |-> errUnexpectedHeader]
       ELSE IF pos = -1 THEN
           IF IndexByte(SliceFrom(line, 3), SP) # -1
           THEN [p |-> p, err |-> errUnexpectedHeader]
           ELSE [p |-> [p EXCEPT !.LocalBranch = SliceFrom(line, 3)], err |-> NoErr]
       ELSE [p |-> parseUpstream([p EXCEPT !.LocalBranch = Slice(line, 3, pos)],
                                 SliceFrom(line, pos + 3)).p,
             err |-> NoErr]

-----------------------------------------------------------------------------
(* Porcelain: the record scanner and the classification of records.        *)

StatusLetters == {SP, "M", "A", "D", "R", "C", "U", "T", "?", "!"}

\* Only the first two characters are looked at.
fileStatusRx_MarkerOnly(line) ==
    /\ Len(line) >= 2
    /\ \/ line[1] = "#" /\ line[2] = "#"
       \/ line[1] \in StatusLetters /\ line[2] \in StatusLetters

\* ^(##|[ MADRCUT?!]{2}) .*$   ('.' matches any character but a newline)
fileStatusRx(line) ==
    /\ Len(line) >= 3
    /\ \/ line[1] = "#" /\ line[2] = "#"
       \/ line[1] \in StatusLetters /\ line[2] \in StatusLetters
    /\ line[3] = SP
    /\ \A k \in 4..Len(line) : line[k] # NL

\* One iteration of the scan loop on a record the scanner has produced.
parseLine(p, line) ==
    LET first == line[1]
        second == line[2]
    IN IF ~fileStatusRx(line) THEN [p |-> p, err |-> NoErr]
       ELSE IF first = "#" /\ second = "#" THEN parseHeader(p, line)
       ELSE IF first = "U" \/ second = "U" \/ (first = "A" /\ second = "A") THEN
           [p |-> [p EXCEPT !.NumConflicts = @ + 1], err |-> NoErr]
       ELSE IF <<first, second>> \in
                 {<<"A", "M">>, <<"M", "M">>, <<"M", "D">>,
                  <<"R", "M">>, <<"R", "D">>, <<"A", "T">>} THEN
           [p |-> [p EXCEPT !.NumModified = @ + 1, !.NumStaged = @ + 1], err |-> NoErr]
       ELSE IF second = "M" \/ second = "D" THEN
           [p |-> [p EXCEPT !.NumModified = @ + 1], err |-> NoErr]
       ELSE IF first = "?" /\ second = "?" THEN
           [p |-> [p EXCEPT !.NumUntracked = @ + 1], err |-> NoErr]
       ELSE [p |-> [p EXCEPT !.NumStaged = @ + 1], err |-> NoErr]

\* bufio.Scanner with scanNilBytes as split function: the records that end
\* with a nil byte come out in order; bytes left after the last nil byte are
\* the scanner's error, seen once the loop is over.
RECURSIVE scanNilBytes_LenientEOF(_)
scanNilBytes_LenientEOF(data) ==
    LET i == IndexByte(data, NUL)
    IN IF data = <<>> THEN [tokens |-> <<>>, err |-> NoErr]
       ELSE IF i = -1 THEN [tokens |-> <<data>>, err |-> NoErr]
       ELSE LET rest == scanNilBytes_LenientEOF(SliceFrom(data, i + 1))
            IN [tokens |-> <<Slice(data, 0, i)>> \o rest.tokens, err |-> rest.err]

RECURSIVE scanNilBytes(_)
scanNilBytes(data) ==
    LET i == IndexByte(data, NUL)
    IN IF data = <<>> THEN [tokens |-> <<>>, err |-> NoErr]
       ELSE IF i = -1 THEN [tokens |-> <<>>, err |-> errLastLine]
       ELSE LET rest == scanNilBytes(SliceFrom(data, i + 1))
            IN [tokens |-> <<Slice(data, 0, i)>> \o rest.tokens, err |-> rest.err]

RECURSIVE parseLoop(_, _, _)
parseLoop(p, tokens, scanErr) ==
    IF tokens = <<>> THEN [p |-> p, err |-> scanErr]
    ELSE LET r == parseLine(p, Head(tokens))
         IN IF r.err # NoErr THEN r
            ELSE parseLoop(r.p, Tail(tokens), scanErr)

parseFrom(p, data) ==
    LET sc == scanNilBytes(data)
    IN parseLoop(p, sc.tokens, sc.err)

-----------------------------------------------------------------------------
(* The record streams given to Porcelain.parseFrom.  A stream is described *)
(* by what git was asked to print (pin) and rendered to bytes the way      *)
(* `git status --porcelain=v1 --branch -z` prints it.                      *)

RECURSIVE SeqsUpTo(_, _)
SeqsUpTo(S, n) ==
    IF n = 0 THEN {<<>>}
    ELSE LET shorter == SeqsUpTo(S, n - 1)
         IN shorter \cup {Append(s, c) : s \in shorter, c \in S}

\* Names git accepts as a reference (git check-ref-format): not empty, no
\* space, no "..", no dot at either end.
ValidRef(s) ==
    /\ s # <<>>
    /\ ~Contains(s, <<SP>>)
    /\ ~Contains(s, <<".", ".">>)
    /\ s[1] # "."
    /\ s[Len(s)] # "."

RefNames == {s \in SeqsUpTo({"m", "o", "."}, MaxBranchLen) : ValidRef(s)}

\* Any text after "## ", well-formed or not.
RawNames == SeqsUpTo({"m", ".", SP}, MaxBranchLen + 1)

Counts == 0..MaxCount

DigitOf(d) ==
    CASE d = 0 -> "0" [] d = 1 -> "1" [] d = 2 -> "2" [] d = 3 -> "3"
      [] d = 4 -> "4" [] d = 5 -> "5" [] d = 6 -> "6" [] d = 7 -> "7"
      [] d = 8 -> "8" [] d = 9 -> "9"

\* The decimal text git prints for a count.
RECURSIVE Itoa(_)
Itoa(n) == IF n < 10 THEN <<DigitOf(n)>> ELSE Append(Itoa(n \div 10), DigitOf(n % 10))

HeaderKinds ==
    {"plain", "upstream", "ahead", "behind", "diverged", "gone", "initial",
     "detached", "plainAhead", "plainAheadOpen", "plainAheadComma", "plainDivergedOpen",
     "aheadJunk", "aheadSigned", "behindSigned"}

Marker == <<"#", "#", SP>>

\* The headers git prints before the first commit and on a detached HEAD.
GitNoCommitsYetOn ==
    Marker \o <<"N", "o", SP, "c", "o", "m", "m", "i", "t", "s", SP,
                "y", "e", "t", SP, "o", "n", SP>>

GitHeadNoBranch ==
    Marker \o <<"H", "E", "A", "D", SP, "(", "n", "o", SP, "b", "r", "a", "n", "c", "h", ")">>

AnnotAhead(a) == S_ahead \o <<SP>> \o Itoa(a)
AnnotDiverged(a, b) == AnnotAhead(a) \o <<",", SP>> \o S_behind \o <<SP>> \o Itoa(b)

RenderHeader(d) ==
    CASE d.kind = "plain" -> Marker \o d.branch
      [] d.kind = "upstream" -> Marker \o d.branch \o S_dots \o d.remote
      [] d.kind = "ahead" ->
           Marker \o d.branch \o S_dots \o d.remote \o <<SP, "[">> \o AnnotAhead(d.a) \o <<"]">>
      [] d.kind = "behind" ->
           Marker \o d.branch \o S_dots \o d.remote
             \o <<SP, "[">> \o S_behind \o <<SP>> \o Itoa(d.b) \o <<"]">>
      [] d.kind = "diverged" ->
           Marker \o d.branch \o S_dots \o d.remote
             \o <<SP, "[">> \o AnnotDiverged(d.a, d.b) \o <<"]">>
      [] d.kind = "gone" ->
           Marker \o d.branch \o S_dots \o d.remote \o <<SP, "[", "g", "o", "n", "e", "]">>
      [] d.kind = "aheadJunk" ->
           Marker \o d.branch \o S_dots \o d.remote
             \o <<SP, "[">> \o S_ahead \o <<SP, "x", "]">>
      [] d.kind = "aheadSigned" ->
           Marker \o d.branch \o S_dots \o d.remote
             \o <<SP, "[">> \o S_ahead \o <<SP, "-">> \o Itoa(d.a) \o <<"]">>
      [] d.kind = "behindSigned" ->
           Marker \o d.branch \o S_dots \o d.remote
             \o <<SP, "[">> \o S_behind \o <<SP, "-">> \o Itoa(d.b) \o <<"]">>
      [] d.kind = "initial" -> GitNoCommitsYetOn \o d.branch
      [] d.kind = "detached" -> GitHeadNoBranch
      [] d.kind = "plainAhead" -> Marker \o d.branch \o <<SP, "[">> \o AnnotAhead(d.a) \o <<"]">>
      [] d.kind = "plainAheadOpen" -> Marker \o d.branch \o <<SP, "[">> \o AnnotAhead(d.a)
      [] d.kind = "plainAheadComma" ->
           Marker \o d.branch \o <<SP, "[">> \o AnnotAhead(d.a) \o <<",">>
      [] d.kind = "plainDivergedOpen" ->
           Marker \o d.branch \o <<SP, "[">> \o AnnotDiverged(d.a, d.b)

Desc(k, br, re, a, b) == [kind |-> k, branch |-> br, remote |-> re, a |-> a, b |-> b]

HeaderInputs ==
    {Desc("plain", n, <<>>, 0, 0) : n \in RawNames}
    \cup {Desc("upstream", br, re, 0, 0) : br \in RefNames, re \in RefNames}
    \cup {Desc(k, br, re, 0, 0) : k \in {"gone", "aheadJunk"}, br \in RefNames, re \in RefNames}
    \cup {Desc("aheadSigned", br, re, a, 0) : br \in RefNames, re \in RefNames, a \in Counts}
    \cup {Desc("behindSigned", br, re, 0, b) : br \in RefNames, re \in RefNames, b \in Counts}
    \cup {Desc("ahead", br, re, a, 0) : br \in RefNames, re \in RefNames, a \in Counts}
    \cup {Desc("behind", br, re, 0, b) : br \in RefNames, re \in RefNames, b \in Counts}
    \cup {Desc("diverged", br, re, a, b) :
            br \in RefNames, re \in RefNames, a \in Counts, b \in Counts}
    \cup {Desc("initial", br, <<>>, 0, 0) : br \in RefNames}
    \cup {Desc("detached", <<>>, <<>>, 0, 0)}
    \cup {Desc(k, br, <<>>, a, 0) :
            k \in {"plainAhead", "plainAheadOpen", "plainAheadComma"},
            br \in RefNames, a \in Counts}
    \cup {Desc("plainDivergedOpen", br, <<>>, a, b) :
            br \in RefNames, a \in Counts, b \in Counts}

\* The orchestrator's variables while the parser is studied alone.
StatusIdle ==
    /\ pc = "returned"
    /\ running = FALSE
    /\ ctxDone = FALSE
    /\ home = "unset"
    /\ env = <<>>
    /\ started = <<>>
    /\ por = NewPorcelain
    /\ stats = [insertions |-> 0, deletions |-> 0]
    /\ nstashed = 0
    /\ ret = [isNil |-> TRUE, st |-> InitialStatus(NewPorcelain), err |-> NilError]

\* porcelainNZT of the tests: the records joined by nil bytes, one more at the end.
porcelainNZT(line) == line \o <<NUL>>

-----------------------------------------------------------------------------
(* The special-state detector.                                             *)

Markers ==
    {"rebase-merge", "rebase-apply", "rebase-apply/rebasing", "rebase-apply/applying",
     "MERGE_HEAD", "CHERRY_PICK_HEAD", "REVERT_HEAD", "BISECT_LOG"}

\* What os.Stat may give for a path: it is there, it is not, or the path
\* cannot be looked at.
StatResults == {"ok", "ENOENT", "EACCES"}

\* fs: the paths under gitdir for which os.Stat succeeds
exists(fs, path) == path \in fs

\* CHERRY_PICK_HEAD looked at before MERGE_HEAD.
treeStateFromDir_CherryPickFirst(fs) ==
    IF exists(fs, "rebase-merge") THEN "Rebasing"
    ELSE IF exists(fs, "rebase-apply") THEN
        IF exists(fs, "rebase-apply/rebasing") THEN "Rebasing"
        ELSE IF exists(fs, "rebase-apply/applying") THEN "AM"
        ELSE "AMRebase"
    ELSE IF exists(fs, "CHERRY_PICK_HEAD") THEN "CherryPicking"
    ELSE IF exists(fs, "MERGE_HEAD") THEN "Merging"
    ELSE IF exists(fs, "REVERT_HEAD") THEN "Reverting"
    ELSE IF exists(fs, "BISECT_LOG") THEN "Bisecting"
    ELSE "Default"

\* rebase-apply/applying looked at before rebase-apply/rebasing.
treeStateFromDir_ApplyingFirst(fs) ==
    IF exists(fs, "rebase-merge") THEN "Rebasing"
    ELSE IF exists(fs, "rebase-apply") THEN
        IF exists(fs, "rebase-apply/applying") THEN "AM"
        ELSE IF exists(fs, "rebase-apply/rebasing") THEN "Rebasing"
        ELSE "AMRebase"
    ELSE IF exists(fs, "MERGE_HEAD") THEN "Merging"
    ELSE IF exists(fs, "CHERRY_PICK_HEAD") THEN "CherryPicking"
    ELSE IF exists(fs, "REVERT_HEAD") THEN "Reverting"
    ELSE IF exists(fs, "BISECT_LOG") THEN "Bisecting"
    ELSE "Default"

treeStateFromDir(fs) ==
    IF exists(fs, "rebase-merge") THEN "Rebasing"
    ELSE IF exists(fs, "rebase-apply") THEN
        IF exists(fs, "rebase-apply/rebasing") THEN "Rebasing"
        ELSE IF exists(fs, "rebase-apply/applying") THEN "AM"
        ELSE "AMRebase"
    ELSE IF exists(fs, "MERGE_HEAD") THEN "Merging"
    ELSE IF exists(fs, "CHERRY_PICK_HEAD") THEN "CherryPicking"
    ELSE IF exists(fs, "REVERT_HEAD") THEN "Reverting"
    ELSE IF exists(fs, "BISECT_LOG") THEN "Bisecting"
    ELSE "Default"

\* What treeStateFromDir may return, over every content of the directory.
TreeStates == {treeStateFromDir(fs) : fs \in SUBSET Markers}

\* Every error but "does not exist" counts as presence.
Statable_UnlessNotExist(st) == {m \in Markers : st[m] # "ENOENT"}

\* The paths under gitdir for which os.Stat returns no error.
Statable(st) == {m \in Markers : st[m] = "ok"}

\* The detector's variables while another component is studied.
TreeIdle ==
    /\ stat = [m \in Markers |-> "ENOENT"]
    /\ tstate = "Default"

-----------------------------------------------------------------------------
(* Callers of newStatus that run at the same time in one process.          *)

Callers == 1..NumCallers

\* The callers' variables while one call is studied alone.
EnvIdle ==
    /\ gpc = [g \in Callers |-> [call |-> 0, at |-> "done"]]
    /\ glocal = [g \in Callers |-> <<>>]
    /\ cmdEnvs = {}
    /\ envInits = 0

-----------------------------------------------------------------------------
(* Specification of the porcelain parser alone: parseFrom applied to one   *)
(* stream, into a fresh Porcelain.                                         *)

InitPorcelain ==
    /\ pin \in HeaderInputs
    /\ pstream = porcelainNZT(RenderHeader(pin))
    /\ ppc = "ready"
    /\ pres = [p |-> NewPorcelain, err |-> NoErr]
    /\ StatusIdle
    /\ TreeIdle
    /\ EnvIdle

ParseFrom ==
    /\ ppc = "ready"
    /\ pres' = parseFrom(NewPorcelain, pstream)
    /\ ppc' = "done"
    /\ UNCHANGED <<pin, pstream>>
    /\ UNCHANGED <<svars, tvars, evars>>

NextPorcelain == ParseFrom

SpecPorcelain == InitPorcelain /\ [][NextPorcelain]_vars

-----------------------------------------------------------------------------
(* The diff-statistics extractor.                                          *)

Space == {SP, NL}

TrimSpace(s) == Trim(s, Space)

Split_Whole(s, c) == <<s>>

\* bytes.Split(s, sep) for a one-byte separator
RECURSIVE Split(_, _)
Split(s, c) ==
    LET i == IndexByte(s, c)
    IN IF i = -1 THEN <<s>>
       ELSE <<Slice(s, 0, i)>> \o Split(SliceFrom(s, i + 1), c)

\* strconv.Atoi: ParseInt in base 10
Atoi(s) == ParseInt(s)

S_insertion == <<"i", "n", "s", "e", "r", "t", "i", "o", "n">>
S_deletion == <<"d", "e", "l", "e", "t", "i", "o", "n">>
errAtoi == "strconv.Atoi: invalid syntax"

RECURSIVE shortStatLoop(_, _, _)
shortStatLoop(splits, insertions, deletions) ==
    IF splits = <<>>
    THEN [insertions |-> insertions, deletions |-> deletions, err |-> NoErr]
    ELSE LET line == TrimSpace(Head(splits))
             posI == Index(line, S_insertion)
             posD == Index(line, S_deletion)
             n == Atoi(TrimSpace(Slice(line, 0, IF posI # -1 THEN posI ELSE posD)))
         IN IF posI # -1 THEN
                IF ~n.ok
                THEN [insertions |-> 0, deletions |-> deletions, err |-> errAtoi]
                ELSE shortStatLoop(Tail(splits), n.val, deletions)
            ELSE IF posD # -1 THEN
                IF ~n.ok
                THEN [insertions |-> insertions, deletions |-> 0, err |-> errAtoi]
                ELSE shortStatLoop(Tail(splits), insertions, n.val)
            ELSE shortStatLoop(Tail(splits), insertions, deletions)

extractShortStat(out) == shortStatLoop(Split(out, ","), 0, 0)

\* stats.parseFrom: the three results are stored, then err is returned
statsParseFrom(data) == extractShortStat(data)

-----------------------------------------------------------------------------
(* The line scanners (bufio.Scanner with bufio.ScanLines).                 *)

\* LONG stands for a run of bytes without a newline that is longer than the
\* scanner's buffer may grow (bufio.MaxScanTokenSize): the scanner stops
\* there with bufio.ErrTooLong.
LONG == "LONG"
ErrTooLong == "bufio.Scanner: token too long"

dropCR(line) ==
    IF line # <<>> /\ line[Len(line)] = "\r" THEN SubSeq(line, 1, Len(line) - 1) ELSE line

RECURSIVE ScanLines(_)
ScanLines(data) ==
    LET i == IndexByte(data, NL)
        tok == IF i = -1 THEN data ELSE Slice(data, 0, i)
    IN IF data = <<>> THEN [tokens |-> <<>>, err |-> NoErr]
       ELSE IF Contains(tok, <<LONG>>) THEN [tokens |-> <<>>, err |-> ErrTooLong]
       ELSE IF i = -1 THEN [tokens |-> <<dropCR(data)>>, err |-> NoErr]
       ELSE LET rest == ScanLines(SliceFrom(data, i + 1))
            IN [tokens |-> <<dropCR(tok)>> \o rest.tokens, err |-> rest.err]

\* Only the lines that end with a newline are counted.
linecountParseFrom_TerminatedOnly(lc, data) ==
    [lc |-> lc + Cardinality({i \in 1..Len(data) : data[i] = NL}), err |-> ScanLines(data).err]

\* linecount.parseFrom: one more for every token, then the scanner's error
linecountParseFrom(lc, data) ==
    LET sc == ScanLines(data)
    IN [lc |-> lc + Len(sc.tokens), err |-> sc.err]

\* lines.parseFrom: every token appended, then the scanner's error
linesParseFrom(l, data) ==
    LET sc == ScanLines(data)
    IN [lines |-> l \o sc.tokens, err |-> sc.err]

-----------------------------------------------------------------------------
(* What the git commands may print.                                        *)

FileRecs ==
    {<<SP, "M", SP, "f">>, <<"M", SP, SP, "f">>, <<"?", "?", SP, "f">>, <<"U", "U", SP, "f">>}

StatusHeaders ==
    {RenderHeader(Desc("plain", <<"m">>, <<>>, 0, 0)),
     RenderHeader(Desc("initial", <<"m">>, <<>>, 0, 0)),
     RenderHeader(Desc("detached", <<>>, <<>>, 0, 0)),
     RenderHeader(Desc("diverged", <<"m">>, <<"o">>, 1, 2))}

RECURSIVE JoinNZT(_)
JoinNZT(records) ==
    IF records = <<>> THEN <<>> ELSE porcelainNZT(Head(records)) \o JoinNZT(Tail(records))

\* well-formed streams, a malformed header, and a stream cut before its nil byte
StatusOutputs ==
    {JoinNZT(<<h>> \o fs) : h \in StatusHeaders, fs \in SeqsUpTo(FileRecs, MaxFiles)}
    \cup {porcelainNZT(Marker \o <<"m", SP>>), Marker \o <<"m">>}

S_fileChanged ==
    <<SP, "1", SP, "f", "i", "l", "e", SP, "c", "h", "a", "n", "g", "e", "d">>

Plural(n) == IF n = 1 THEN <<>> ELSE <<"s">>

\* ` 1 file changed, 2 insertions(+), 1 deletion(-)`: a segment is left out
\* when its count is zero, and nothing is printed for an empty diff.
RenderShortStat(ins, del) ==
    IF ins = 0 /\ del = 0 THEN <<>>
    ELSE S_fileChanged
         \o (IF ins = 0 THEN <<>>
             ELSE <<",", SP>> \o Itoa(ins) \o <<SP>> \o S_insertion \o Plural(ins)
                    \o <<"(", "+", ")">>)
         \o (IF del = 0 THEN <<>>
             ELSE <<",", SP>> \o Itoa(del) \o <<SP>> \o S_deletion \o Plural(del)
                    \o <<"(", "-", ")">>)
         \o <<NL>>

DiffOutputs ==
    {RenderShortStat(i, d) : i \in 0..MaxStat, d \in 0..MaxStat}
    \cup {S_fileChanged \o <<",", SP, "x", SP>> \o S_insertion \o <<NL>>}

RECURSIVE StashList(_)
StashList(n) == IF n = 0 THEN <<>> ELSE StashList(n - 1) \o <<"s", NL>>

StashOutputs == {StashList(n) : n \in 0..MaxStash} \cup {<<LONG, NL>>}

GitDirLine == <<".", "g", "i", "t">>
HashLine == <<"a", "1", "f">>

RevParseOutputs ==
    {GitDirLine \o <<NL>> \o HashLine \o <<NL>>,
     GitDirLine \o <<NL>>,
     GitDirLine \o <<NL>> \o HashLine \o <<NL>> \o HashLine \o <<NL>>,
     GitDirLine \o <<NL, LONG, NL>>}

-----------------------------------------------------------------------------
(* runAndParse and newStatus.                                              *)

Unset == "unset"
Queries == {"status", "diff", "stash", "revparse"}

\* ctx.Err(), returned as it is
CtxErr == [exec |-> "", cause |-> "context canceled"]
ExitErr == "exit status 1"
KilledErr == "signal: killed"

\* env as runAndParse builds it: NAME=value entries
BuildEnv(h) ==
    <<<<"LC_ALL", "C">>, <<"GIT_OPTIONAL_LOCKS", "0">>>>
      \o (IF h = Unset THEN <<>> ELSE <<<<"HOME", h>>>>)

\* An error returned together with a Status that is not nil.
Fail_WithStatus(err) == [isNil |-> FALSE, st |-> InitialStatus(NewPorcelain), err |-> err]

\* return nil, err: the Status pointer is nil (st is then only a placeholder)
Fail(err) == [isNil |-> TRUE, st |-> InitialStatus(NewPorcelain), err |-> err]

\* return st, nil
Succeed(st) == [isNil |-> FALSE, st |-> st, err |-> NilError]

\* isClean with the untracked files forgotten.
isClean_NoUntracked(p) == p.NumStaged + p.NumConflicts + p.NumModified = 0

isClean(p) == p.NumStaged + p.NumConflicts + p.NumModified + p.NumUntracked = 0

FullStatus(p, state, head, nst, sts) ==
    [Porcelain |-> p, NumStashed |-> nst, HEAD |-> head, State |-> state,
     IsClean |-> isClean(p), Insertions |-> sts.insertions, Deletions |-> sts.deletions]

\* runAndParse without the look at the context.
RunAndParseEnter_NoCtxCheck ==
    /\ pc \in Queries
    /\ ~running
    /\ env' = IF env = <<>> THEN BuildEnv(home) ELSE env
    /\ started' = Append(started, [cmd |-> pc, env |-> env'])
    /\ running' = TRUE
    /\ UNCHANGED <<pc, ret>>
    /\ UNCHANGED <<ctxDone, home, por, stats, nstashed>>
    /\ UNCHANGED <<pvars, tvars, evars>>

\* runAndParse up to the start of the command: the context is looked at
\* first, env is built on first use, and the command starts with it.
RunAndParseEnter ==
    /\ pc \in Queries
    /\ ~running
    /\ IF ctxDone
       THEN /\ ret' = Fail(CtxErr)
            /\ pc' = "returned"
            /\ UNCHANGED <<running, env, started>>
       ELSE /\ env' = IF env = <<>> THEN BuildEnv(home) ELSE env
            /\ started' = Append(started, [cmd |-> pc, env |-> env'])
            /\ running' = TRUE
            /\ UNCHANGED <<pc, ret>>
    /\ UNCHANGED <<ctxDone, home, por, stats, nstashed>>
    /\ UNCHANGED <<pvars, tvars, evars>>

\* A command that fails is started again.
ExecFails_Retry ==
    /\ pc \in Queries
    /\ running
    /\ running' = FALSE
    /\ UNCHANGED <<pc, ret, ctxDone, home, env, started, por, stats, nstashed>>
    /\ UNCHANGED <<pvars, tvars, evars>>

\* cmd.Output fails: the command exits with an error, or it is killed
\* because the context became done while it ran.
ExecFails ==
    /\ pc \in Queries
    /\ running
    /\ running' = FALSE
    /\ \E cause \in (IF ctxDone THEN {ExitErr, KilledErr} ELSE {ExitErr}) :
         ret' = Fail(WrapExec(pc, cause))
    /\ pc' = "returned"
    /\ UNCHANGED <<ctxDone, home, env, started, por, stats, nstashed>>
    /\ UNCHANGED <<pvars, tvars, evars>>

\* git status --porcelain=v1 --branch -z completes and is parsed into por
StatusDone ==
    /\ pc = "status"
    /\ running
    /\ running' = FALSE
    /\ \E out \in StatusOutputs :
         LET r == parseFrom(por, out)
         IN /\ por' = r.p
            /\ IF r.err # NoErr
               THEN ret' = Fail(WrapExec(pc, r.err)) /\ pc' = "returned"
               ELSE pc' = "diff" /\ UNCHANGED ret
    /\ UNCHANGED <<ctxDone, home, env, started, stats, nstashed>>
    /\ UNCHANGED <<pvars, tvars, evars>>

\* git diff --shortstat completes and is parsed; then the initial state
\* ends the call
DiffDone ==
    /\ pc = "diff"
    /\ running
    /\ running' = FALSE
    /\ \E out \in DiffOutputs :
         LET r == statsParseFrom(out)
         IN /\ stats' = [insertions |-> r.insertions, deletions |-> r.deletions]
            /\ IF r.err # NoErr
               THEN ret' = Fail(WrapExec(pc, r.err)) /\ pc' = "returned"
               ELSE IF por.IsInitial
               THEN ret' = Succeed(InitialStatus(por)) /\ pc' = "returned"
               ELSE pc' = "stash" /\ UNCHANGED ret
    /\ UNCHANGED <<ctxDone, home, env, started, por, nstashed>>
    /\ UNCHANGED <<pvars, tvars, evars>>

\* git stash list completes and its lines are counted
StashDone ==
    /\ pc = "stash"
    /\ running
    /\ running' = FALSE
    /\ \E out \in StashOutputs :
         LET r == linecountParseFrom(0, out)
         IN /\ nstashed' = r.lc
            /\ IF r.err # NoErr
               THEN ret' = Fail(WrapExec(pc, r.err)) /\ pc' = "returned"
               ELSE pc' = "revparse" /\ UNCHANGED ret
    /\ UNCHANGED <<ctxDone, home, env, started, por, stats>>
    /\ UNCHANGED <<pvars, tvars, evars>>

\* git rev-parse --git-dir --short HEAD completes; the Status is built
RevParseDone ==
    /\ pc = "revparse"
    /\ running
    /\ running' = FALSE
    /\ pc' = "returned"
    /\ \E out \in RevParseOutputs, ts \in TreeStates :
         LET r == linesParseFrom(<<>>, out)
             err == IF r.err # NoErr THEN WrapExec(pc, r.err) ELSE NilError
         IN IF err # NilError \/ Len(r.lines) # 2
            THEN ret' = Fail(err)
            ELSE ret' = Succeed(FullStatus(por, ts,
                                           TrimSpace(r.lines[2]), nstashed, stats))
    /\ UNCHANGED <<ctxDone, home, env, started, por, stats, nstashed>>
    /\ UNCHANGED <<pvars, tvars, evars>>

\* the caller's context becomes done (cancellation or deadline)
Cancel ==
    /\ pc \in Queries
    /\ ~ctxDone
    /\ ctxDone' = TRUE
    /\ UNCHANGED <<pc, running, home, env, started, por, stats, nstashed, ret>>
    /\ UNCHANGED <<pvars, tvars, evars>>

\* The parser's variables while newStatus is studied.
PorcelainIdle ==
    /\ pin = Desc("detached", <<>>, <<>>, 0, 0)
    /\ pstream = <<>>
    /\ ppc = "done"
    /\ pres = [p |-> NewPorcelain, err |-> NoErr]

Init ==
    /\ pc = "status"
    /\ running = FALSE
    /\ ctxDone \in BOOLEAN
    /\ home \in {Unset, "/home/u"}
    /\ env = <<>>
    /\ started = <<>>
    /\ por = NewPorcelain
    /\ stats = [insertions |-> 0, deletions |-> 0]
    /\ nstashed = 0
    /\ ret = Fail(NilError)
    /\ PorcelainIdle
    /\ TreeIdle
    /\ EnvIdle

Next ==
    \/ RunAndParseEnter
    \/ ExecFails
    \/ StatusDone
    \/ DiffDone
    \/ StashDone
    \/ RevParseDone
    \/ Cancel

Spec == Init /\ [][Next]_vars

-----------------------------------------------------------------------------
(* Properties of newStatus (specification Spec).                           *)

Returned == pc = "returned"

ReturnedStatus == Returned /\ ~ret.isNil /\ ret.err = NilError

\* C1, as stated: every Status returned with a nil error has IsClean true
\* if and only if NumStaged, NumConflicts, NumModified, NumStashed and
\* NumUntracked are all zero.
C1_IsCleanIffFiveCountsZero ==
    ReturnedStatus =>
        (ret.st.IsClean <=>
            /\ ret.st.Porcelain.NumStaged = 0
            /\ ret.st.Porcelain.NumConflicts = 0
            /\ ret.st.Porcelain.NumModified = 0
            /\ ret.st.NumStashed = 0
            /\ ret.st.Porcelain.NumUntracked = 0)

\* C1, amended: a Status returned with a nil error for a tree that has a
\* commit has IsClean true if and only if NumStaged, NumConflicts,
\* NumModified and NumUntracked are all zero, whatever NumStashed is; a
\* Status returned for the initial state has IsClean false.
C1_IsCleanIffFourCountsZero ==
    ReturnedStatus =>
        IF ret.st.Porcelain.IsInitial
        THEN ~ret.st.IsClean
        ELSE ret.st.IsClean <=>
               /\ ret.st.Porcelain.NumStaged = 0
               /\ ret.st.Porcelain.NumConflicts = 0
               /\ ret.st.Porcelain.NumModified = 0
               /\ ret.st.Porcelain.NumUntracked = 0

\* C1 witness: a clean Status that counts stash entries.
C1_CleanWithStash ==
    /\ ReturnedStatus
    /\ ret.st.IsClean
    /\ ret.st.NumStashed > 0
    /\ ~ret.st.Porcelain.IsInitial

\* C2, as stated: once the status output has set the initial-commit flag,
\* no command other than the status query is started in the call.
C2_InitialStartsOnlyStatus ==
    por.IsInitial => \A i \in 1..Len(started) : started[i].cmd = "status"

\* C3: when runAndParse is entered with the context done, it returns the
\* context's error and starts no command, and newStatus returns that error
\* with a nil Status; nothing is started after newStatus has returned.
C3_DoneContextStartsNothing ==
    [][/\ (pc \in Queries /\ ~running /\ ctxDone) =>
            /\ started' = started
            /\ pc' = "returned"
            /\ ret'.isNil
            /\ ret'.err = CtxErr
       /\ Returned => (started' = started /\ ret' = ret)]_vars

\* C3 witness: the context was done before the first query.
C3_CancelledBeforeFirstQuery ==
    Returned /\ ret.err = CtxErr /\ started = <<>> /\ ctxDone

\* C4: whenever newStatus returns an error, the Status it returns is nil.
C4_ErrorMeansNilStatus ==
    (Returned /\ ret.err # NilError) => ret.isNil

\* C4 witness: a call that ended on a parse error of the diff statistics,
\* after the status query had filled por.
C4_ParseErrorReturned ==
    /\ Returned
    /\ ret.err = WrapExec("diff", errAtoi)
    /\ ret.isNil
    /\ por.LocalBranch # <<>>

-----------------------------------------------------------------------------
(* Properties of Porcelain.parseFrom (specification SpecPorcelain).        *)

Parsed == ppc = "done"

NoCounts(p) ==
    /\ p.NumModified = 0
    /\ p.NumStaged = 0
    /\ p.NumConflicts = 0
    /\ p.NumUntracked = 0

\* C5: `## <branch>...<remote> [ahead A, behind B]` parses without error to
\* LocalBranch = <branch>, RemoteBranch = <remote>, AheadCount = A and
\* BehindCount = B.
C5_DivergedHeader ==
    (Parsed /\ pin.kind = "diverged") =>
        /\ pres.err = NoErr
        /\ pres.p.LocalBranch = pin.branch
        /\ pres.p.RemoteBranch = pin.remote
        /\ pres.p.AheadCount = pin.a
        /\ pres.p.BehindCount = pin.b

\* C5 witness: both counts parsed, different and of two digits.
C5_DivergedParsed ==
    /\ Parsed
    /\ pin.kind = "diverged"
    /\ pin.a >= 10
    /\ pin.b > 0
    /\ pin.a # pin.b
    /\ pres.p.AheadCount = pin.a
    /\ pres.p.BehindCount = pin.b

\* C6: with an upstream, `[ahead A]` gives AheadCount = A and BehindCount = 0,
\* `[behind B]` gives BehindCount = B and AheadCount = 0, no annotation gives
\* both zero; LocalBranch and RemoteBranch are <branch> and <remote>.
C6_OneSidedHeader ==
    (Parsed /\ pin.kind \in {"ahead", "behind", "upstream"}) =>
        /\ pres.err = NoErr
        /\ pres.p.LocalBranch = pin.branch
        /\ pres.p.RemoteBranch = pin.remote
        /\ pres.p.AheadCount = (IF pin.kind = "ahead" THEN pin.a ELSE 0)
        /\ pres.p.BehindCount = (IF pin.kind = "behind" THEN pin.b ELSE 0)

\* C6 witness: a header that is behind only.
C6_BehindParsed ==
    /\ Parsed
    /\ pin.kind = "behind"
    /\ pin.b > 0
    /\ pres.p.BehindCount = pin.b
    /\ pres.p.AheadCount = 0
    /\ pres.p.RemoteBranch = pin.remote

\* What C7 asks of the branch name.
BareBranch(name) ==
    /\ name # <<>>
    /\ ~Contains(name, <<SP>>)
    /\ ~Contains(name, S_dots)
    /\ Marker \o name # GitHeadNoBranch
    /\ ~HasPrefix(Marker \o name, GitNoCommitsYetOn)

\* C7: `## <branch>`, the branch not empty, without space or `...`, neither
\* the detached sentinel nor the initial-commit prefix, parses without error
\* to LocalBranch = <branch>, no remote branch and zero divergence.
C7_PlainHeader ==
    (Parsed /\ pin.kind = "plain" /\ BareBranch(pin.branch)) =>
        /\ pres.err = NoErr
        /\ pres.p.LocalBranch = pin.branch
        /\ pres.p.RemoteBranch = <<>>
        /\ pres.p.AheadCount = 0
        /\ pres.p.BehindCount = 0

\* C7 witness: a bare branch name of more than one character.
C7_PlainParsed ==
    /\ Parsed
    /\ pin.kind = "plain"
    /\ BareBranch(pin.branch)
    /\ Len(pin.branch) > 1
    /\ pres.p.LocalBranch = pin.branch

\* C8: a stream whose only record is `## No commits yet on <branch>` parses
\* without error to IsInitial, LocalBranch = <branch>, not detached, no
\* remote branch and every counter zero.
C8_InitialHeader ==
    (Parsed /\ pin.kind = "initial") =>
        /\ pres.err = NoErr
        /\ pres.p.IsInitial
        /\ pres.p.LocalBranch = pin.branch
        /\ ~pres.p.IsDetached
        /\ pres.p.RemoteBranch = <<>>
        /\ NoCounts(pres.p)
        /\ pres.p.AheadCount = 0
        /\ pres.p.BehindCount = 0

\* C8 witness: the initial header parsed.
C8_InitialParsed ==
    /\ Parsed
    /\ pin.kind = "initial"
    /\ pres.p.IsInitial
    /\ pres.p.LocalBranch = pin.branch
    /\ pstream = porcelainNZT(GitNoCommitsYetOn \o pin.branch)

\* C9: `## HEAD (no branch)` parses without error to IsDetached with
\* LocalBranch and RemoteBranch empty and IsInitial false.
C9_DetachedHeader ==
    (Parsed /\ pstream = porcelainNZT(GitHeadNoBranch)) =>
        /\ pres.err = NoErr
        /\ pres.p.IsDetached
        /\ pres.p.LocalBranch = <<>>
        /\ pres.p.RemoteBranch = <<>>
        /\ ~pres.p.IsInitial

\* C9 witness: the detached header parsed.
C9_DetachedParsed ==
    /\ Parsed
    /\ pin.kind = "detached"
    /\ pres.p.IsDetached
    /\ pres.err = NoErr

\* The header of the stream has no `...` and a space after "## ".
SpaceWithoutUpstream ==
    LET line == RenderHeader(pin)
    IN /\ HasPrefix(line, Marker)
       /\ ~Contains(line, S_dots)
       /\ Contains(SliceFrom(line, 3), <<SP>>)

\* C10, as stated: a header without `...` whose text after "## " holds a
\* space makes parseFrom return an error.
C10_SpaceWithoutUpstreamFails ==
    (Parsed /\ SpaceWithoutUpstream) => pres.err # NoErr

\* C10, amended: a header without `...` whose text after "## " holds a
\* space, and which is neither the detached sentinel nor begins with the
\* initial-commit prefix, makes parseFrom return an error.
C10_SpaceInBranchFails ==
    (/\ Parsed
     /\ SpaceWithoutUpstream
     /\ RenderHeader(pin) # GitHeadNoBranch
     /\ ~HasPrefix(RenderHeader(pin), GitNoCommitsYetOn)) => pres.err = errUnexpectedHeader

\* C10 witness: `## <branch> [ahead A, behind B` rejected.
C10_UnterminatedRejected ==
    /\ Parsed
    /\ pin.kind = "plainDivergedOpen"
    /\ pres.err = errUnexpectedHeader
    /\ pres.p = NewPorcelain

\* C11: a header with an upstream whose text after the space is not a
\* well-formed `[ahead N]`, `[behind N]` or `[ahead N, behind N]` makes
\* parseFrom return an error.
C11_MalformedAnnotationFails ==
    (Parsed /\ pin.kind \in {"gone", "aheadJunk"}) => pres.err # NoErr

-----------------------------------------------------------------------------
(* Specification of the porcelain parser on file records: parseFrom        *)
(* applied to a stream of records `XY <path>`, into a fresh Porcelain.     *)

\* Paths are printed as they are under -z; a file name may hold a newline.
Paths == {<<"f">>, <<"a", NL, "b">>}

FileRecord(x, y, path) == <<x, y, SP>> \o path

Repeat(rec, n) == [i \in 1..n |-> rec]

\* Records the scanner is tried on: empty, too short, a file, a header, a
\* malformed header, the original path of a rename, two letters alone, the
\* header marker alone, the detached and the initial header.
ScanRecs ==
    {<<>>, <<"x">>, <<"M", SP, SP, "f">>, Marker \o <<"m">>, Marker \o <<"m", SP>>,
     <<"o", "l", "d">>, <<"M", "M">>, <<"#", "#">>,
     GitHeadNoBranch, GitNoCommitsYetOn \o <<"m">>}

\* Bytes after the last nil byte.
Tails == {<<>>, <<"x">>, <<"?", "?", SP, "c">>}

Stream(recs, tail) == [recs |-> recs, tail |-> tail]

RecordInputs ==
    {Stream(Repeat(FileRecord(x, y, path), n), <<>>) :
        x \in StatusLetters, y \in StatusLetters, path \in Paths, n \in 0..MaxRepeat}
    \cup {Stream(recs, tail) : recs \in SeqsUpTo(ScanRecs, MaxRecords), tail \in Tails}

InitRecords ==
    /\ pin \in RecordInputs
    /\ pstream = JoinNZT(pin.recs) \o pin.tail
    /\ ppc = "ready"
    /\ pres = [p |-> NewPorcelain, err |-> NoErr]
    /\ StatusIdle
    /\ TreeIdle
    /\ EnvIdle

SpecRecords == InitRecords /\ [][NextPorcelain]_vars

\* The stream is n >= 1 copies of one record `XY <path>`, all terminated.
SameFileRecords ==
    /\ pin.tail = <<>>
    /\ Len(pin.recs) >= 1
    /\ \A i \in 1..Len(pin.recs) : pin.recs[i] = pin.recs[1]
    /\ Len(pin.recs[1]) > 3
    /\ pin.recs[1][1] \in StatusLetters
    /\ pin.recs[1][2] \in StatusLetters
    /\ pin.recs[1][3] = SP

\* The rule the letters XY select, first match first.
Category(x, y) ==
    IF x = "U" \/ y = "U" \/ <<x, y>> = <<"A", "A">> THEN "conflict"
    ELSE IF <<x, y>> \in {<<"A", "M">>, <<"M", "M">>, <<"M", "D">>,
                          <<"R", "M">>, <<"R", "D">>, <<"A", "T">>} THEN "both"
    ELSE IF y \in {"M", "D"} THEN "modified"
    ELSE IF <<x, y>> = <<"?", "?">> THEN "untracked"
    ELSE "staged"

\* A fresh Porcelain after n records of one category.
Counted(cat, n) ==
    [NewPorcelain EXCEPT
        !.NumConflicts = IF cat = "conflict" THEN n ELSE 0,
        !.NumModified = IF cat \in {"both", "modified"} THEN n ELSE 0,
        !.NumStaged = IF cat \in {"both", "staged"} THEN n ELSE 0,
        !.NumUntracked = IF cat = "untracked" THEN n ELSE 0]

\* C12: a file record whose two letters are status letters followed by a
\* space is counted by exactly the first rule its letters match.
C12_FirstMatchingRule ==
    (Parsed /\ SameFileRecords /\ Len(pin.recs) = 1) =>
        /\ pres.err = NoErr
        /\ pres.p = Counted(Category(pin.recs[1][1], pin.recs[1][2]), 1)

\* C13: N terminated file records of one category, parsed into a fresh
\* Porcelain, leave N in that category's counter or counters and zero in
\* the other counters (N = 0 is the empty stream).
C13_CountsPerCategory ==
    (Parsed /\ pin.tail = <<>> /\ (pin.recs = <<>> \/ SameFileRecords)) =>
        /\ pres.err = NoErr
        /\ pres.p = IF pin.recs = <<>> THEN NewPorcelain
                    ELSE Counted(Category(pin.recs[1][1], pin.recs[1][2]), Len(pin.recs))

-----------------------------------------------------------------------------
(* Specification of the diff-statistics extractor alone: stats.parseFrom   *)
(* applied to one summary line of `git diff --shortstat`.                  *)

S_files == <<SP, "f", "i", "l", "e">>
S_changed == <<SP, "c", "h", "a", "n", "g", "e", "d">>

\* `<F> file(s) changed[, <X> insertion(s)(+)][, <Y> deletion(s)(-)]`, as
\* the tests write it or as git prints it (a space before, a newline
\* after); nothing at all when no file has changed.
SummaryLine(d) ==
    IF d.files = 0 THEN <<>>
    ELSE (IF d.git THEN <<SP>> ELSE <<>>)
         \o Itoa(d.files) \o S_files \o Plural(d.files) \o S_changed
         \o (IF d.hasIns
             THEN <<",", SP>> \o Itoa(d.ins) \o <<SP>> \o S_insertion \o Plural(d.ins)
                    \o <<"(", "+", ")">>
             ELSE <<>>)
         \o (IF d.hasDel
             THEN <<",", SP>> \o Itoa(d.del) \o <<SP>> \o S_deletion \o Plural(d.del)
                    \o <<"(", "-", ")">>
             ELSE <<>>)
         \o (IF d.git THEN <<NL>> ELSE <<>>)

Summary(f, g, hi, i, hd, d) ==
    [files |-> f, git |-> g, hasIns |-> hi, ins |-> i, hasDel |-> hd, del |-> d]

ShortStatInputs ==
    {Summary(0, FALSE, FALSE, 0, FALSE, 0)}
    \cup {Summary(f, g, hi, IF hi THEN i ELSE 0, hd, IF hd THEN d ELSE 0) :
            f \in 1..MaxFilesChanged, g \in BOOLEAN,
            hi \in BOOLEAN, i \in Counts, hd \in BOOLEAN, d \in Counts}

InitShortStat ==
    /\ pin \in ShortStatInputs
    /\ pstream = SummaryLine(pin)
    /\ ppc = "ready"
    /\ pres = [insertions |-> 0, deletions |-> 0, err |-> NoErr]
    /\ StatusIdle
    /\ TreeIdle
    /\ EnvIdle

StatsParseFrom ==
    /\ ppc = "ready"
    /\ pres' = statsParseFrom(pstream)
    /\ ppc' = "done"
    /\ UNCHANGED <<pin, pstream>>
    /\ UNCHANGED <<svars, tvars, evars>>

NextShortStat == StatsParseFrom

SpecShortStat == InitShortStat /\ [][NextShortStat]_vars

\* C15: on the empty input and on every summary line
\* `<F> file(s) changed[, <X> insertion(s)(+)][, <Y> deletion(s)(-)]`
\* extractShortStat returns no error, insertions = X (0 if the segment is
\* absent) and deletions = Y (0 if absent).
C15_ShortStatExtracted ==
    Parsed =>
        pres = [insertions |-> IF pin.hasIns THEN pin.ins ELSE 0,
                deletions |-> IF pin.hasDel THEN pin.del ELSE 0,
                err |-> NoErr]

\* C15 witness: both segments present, with different counts, one of two
\* digits.
C15_BothSegmentsRead ==
    /\ Parsed
    /\ pin.files = 2
    /\ pin.hasIns /\ pin.ins >= 10
    /\ pin.hasDel /\ pin.del = 1
    /\ pres.insertions = pin.ins
    /\ pres.deletions = 1

-----------------------------------------------------------------------------
(* Specification of the special-state detector alone: treeStateFromDir on  *)
(* one git directory.                                                      *)

InitTreeState ==
    /\ stat \in [Markers -> StatResults]
    /\ tstate = "unset"
    /\ StatusIdle
    /\ PorcelainIdle
    /\ EnvIdle

TreeStateFromDir ==
    /\ tstate = "unset"
    /\ tstate' = treeStateFromDir(Statable(stat))
    /\ UNCHANGED <<stat, pvars, svars, evars>>

NextTreeState == TreeStateFromDir

SpecTreeState == InitTreeState /\ [][NextTreeState]_vars

Detected == tstate # "unset"

\* Every marker path is either there or not there.
NoAccessError == \A m \in Markers : stat[m] \in {"ok", "ENOENT"}

Present(m) == stat[m] = "ok"

\* The six markers, in the order in which they are looked at.
MarkerOrder ==
    <<"rebase-merge", "rebase-apply", "MERGE_HEAD", "CHERRY_PICK_HEAD",
      "REVERT_HEAD", "BISECT_LOG">>

\* The states a marker stands for.
StatesOf(m) ==
    CASE m = "rebase-merge" -> {"Rebasing"}
      [] m = "rebase-apply" -> {"Rebasing", "AM", "AMRebase"}
      [] m = "MERGE_HEAD" -> {"Merging"}
      [] m = "CHERRY_PICK_HEAD" -> {"CherryPicking"}
      [] m = "REVERT_HEAD" -> {"Reverting"}
      [] m = "BISECT_LOG" -> {"Bisecting"}

\* C16: treeStateFromDir returns the state of the first marker present in
\* the order rebase-merge, rebase-apply, MERGE_HEAD, CHERRY_PICK_HEAD,
\* REVERT_HEAD, BISECT_LOG, and Default exactly when none of the six is
\* present.
C16_FirstMarkerWins ==
    (Detected /\ NoAccessError) =>
        LET there == {i \in 1..Len(MarkerOrder) : Present(MarkerOrder[i])}
        IN IF there = {} THEN tstate = "Default"
           ELSE LET first == CHOOSE i \in there : \A j \in there : i <= j
                IN tstate \in StatesOf(MarkerOrder[first])

\* C16 witness: MERGE_HEAD and CHERRY_PICK_HEAD both present, no rebase
\* marker: Merging.
C16_MergeBeforeCherryPick ==
    /\ Detected
    /\ NoAccessError
    /\ Present("MERGE_HEAD") /\ Present("CHERRY_PICK_HEAD")
    /\ ~Present("rebase-merge") /\ ~Present("rebase-apply")
    /\ tstate = "Merging"

\* C17: with rebase-merge absent and rebase-apply present the result is
\* Rebasing if rebase-apply/rebasing exists, else AM if rebase-apply/applying
\* exists, else AMRebase, whatever the other four markers are.
C17_RebaseApplyStates ==
    (Detected /\ NoAccessError /\ ~Present("rebase-merge") /\ Present("rebase-apply")) =>
        tstate = IF Present("rebase-apply/rebasing") THEN "Rebasing"
                 ELSE IF Present("rebase-apply/applying") THEN "AM"
                 ELSE "AMRebase"

\* C17 witness: rebasing and applying both under rebase-apply, with
\* MERGE_HEAD present too: Rebasing.
C17_RebasingBeforeApplying ==
    /\ Detected
    /\ NoAccessError
    /\ ~Present("rebase-merge") /\ Present("rebase-apply")
    /\ Present("rebase-apply/rebasing") /\ Present("rebase-apply/applying")
    /\ Present("MERGE_HEAD")
    /\ tstate = "Rebasing"

-----------------------------------------------------------------------------
(* Sign of the numbers the parsers return.                                 *)

\* C18: when parseFrom returns no error every number of the Porcelain is
\* non-negative, whatever digits or signs the annotation carries.
C18_CountsNonNegative ==
    (Parsed /\ pres.err = NoErr) =>
        /\ pres.p.NumModified >= 0
        /\ pres.p.NumStaged >= 0
        /\ pres.p.NumConflicts >= 0
        /\ pres.p.NumUntracked >= 0
        /\ pres.p.AheadCount >= 0
        /\ pres.p.BehindCount >= 0

-----------------------------------------------------------------------------
(* Specification of concurrent callers: NumCallers goroutines call         *)
(* newStatus in one process, each running its queries through runAndParse. *)
(* Nothing orders the callers' reads and writes of the package-level env,  *)
(* so a step is one read or one write of it; every run of this             *)
(* specification is an interleaving the program can produce.               *)

\* runAndParse calls of one newStatus call.
CallsPerStatus == Cardinality(Queries)

At(g, line) == gpc[g].at = line

Goto(g, line) == gpc' = [gpc EXCEPT ![g].at = line]

EnvOthers == <<pc, running, ctxDone, home, started, por, stats, nstashed, ret, pvars, tvars>>

InitEnv ==
    /\ home \in {Unset, "/home/u"}
    /\ env = <<>>
    /\ gpc = [g \in Callers |-> [call |-> 1, at |-> "check"]]
    /\ glocal = [g \in Callers |-> <<>>]
    /\ cmdEnvs = {}
    /\ envInits = 0
    /\ pc = "returned"
    /\ running = FALSE
    /\ ctxDone = FALSE
    /\ started = <<>>
    /\ por = NewPorcelain
    /\ stats = [insertions |-> 0, deletions |-> 0]
    /\ nstashed = 0
    /\ ret = Fail(NilError)
    /\ PorcelainIdle
    /\ TreeIdle

\* if env == nil {
EnvCheck(g) ==
    /\ At(g, "check")
    /\ Goto(g, IF env = <<>> THEN "assign" ELSE "use")
    /\ UNCHANGED <<env, glocal, cmdEnvs, envInits>>
    /\ UNCHANGED EnvOthers

\* env = []string{"LC_ALL=C", "GIT_OPTIONAL_LOCKS=0"}
EnvAssign(g) ==
    /\ At(g, "assign")
    /\ env' = BuildEnv(Unset)
    /\ envInits' = envInits + 1
    /\ Goto(g, "lookup")
    /\ UNCHANGED <<glocal, cmdEnvs>>
    /\ UNCHANGED EnvOthers

\* home, ok := os.LookupEnv("HOME"); if ok, env is read for append
EnvLookup(g) ==
    /\ At(g, "lookup")
    /\ IF home = Unset
       THEN Goto(g, "use") /\ UNCHANGED glocal
       ELSE Goto(g, "append") /\ glocal' = [glocal EXCEPT ![g] = env]
    /\ UNCHANGED <<env, cmdEnvs, envInits>>
    /\ UNCHANGED EnvOthers

\* env = append(<the slice read>, "HOME="+home)
EnvAppend(g) ==
    /\ At(g, "append")
    /\ env' = Append(glocal[g], <<"HOME", home>>)
    /\ Goto(g, "use")
    /\ UNCHANGED <<glocal, cmdEnvs, envInits>>
    /\ UNCHANGED EnvOthers

\* cmd.Env = env, and the command runs; then the next query, if any
EnvUse(g) ==
    /\ At(g, "use")
    /\ cmdEnvs' = cmdEnvs \cup {env}
    /\ gpc' = [gpc EXCEPT ![g] = IF @.call < CallsPerStatus
                                  THEN [call |-> @.call + 1, at |-> "check"]
                                  ELSE [call |-> @.call, at |-> "done"]]
    /\ UNCHANGED <<env, glocal, envInits>>
    /\ UNCHANGED EnvOthers

NextEnv ==
    \E g \in Callers :
        \/ EnvCheck(g)
        \/ EnvAssign(g)
        \/ EnvLookup(g)
        \/ EnvAppend(g)
        \/ EnvUse(g)

SpecEnv == InitEnv /\ [][NextEnv]_vars

\* C19: over every interleaving of concurrent callers, env is initialised
\* at most once, and it is not modified once a command has been given it.
C19_EnvWrittenOnceThenReadOnly ==
    [][/\ envInits' <= 1
       /\ cmdEnvs # {} => env' = env]_vars

-----------------------------------------------------------------------------
(* Specification of the line counter alone: linecount.parseFrom applied to *)
(* one byte stream, from a counter of zero.                                *)

\* A byte of a line, a carriage return, a newline, and a run of bytes longer
\* than the scanner's buffer.
LineBytes == {"s", "\r", NL, LONG}

InitLineCount ==
    /\ pin \in SeqsUpTo(LineBytes, MaxStreamLen)
    /\ pstream = pin
    /\ ppc = "ready"
    /\ pres = [lc |-> 0, err |-> NoErr]
    /\ StatusIdle
    /\ TreeIdle
    /\ EnvIdle

LinecountParseFrom ==
    /\ ppc = "ready"
    /\ pres' = linecountParseFrom(0, pstream)
    /\ ppc' = "done"
    /\ UNCHANGED <<pin, pstream>>
    /\ UNCHANGED <<svars, tvars, evars>>

NextLineCount == LinecountParseFrom

SpecLineCount == InitLineCount /\ [][NextLineCount]_vars

\* The number of newline characters of a stream.
Newlines(s) == Cardinality({i \in 1..Len(s) : s[i] = NL})

\* C20, as stated: on every byte stream linecount.parseFrom returns no error
\* and counts the newline-terminated records, `\r\n` ending one record.
C20_CountsTerminatedRecords ==
    Parsed => pres = [lc |-> Newlines(pstream), err |-> NoErr]

\* C20, amended: on a stream without a line longer than the scanner's
\* buffer linecount.parseFrom returns no error and counts the
\* newline-terminated records plus one for bytes left after the last
\* newline; on a stream with such a line it returns the scanner's error.
C20_CountsLines ==
    Parsed =>
        IF \E i \in 1..Len(pstream) : pstream[i] = LONG
        THEN pres.err = ErrTooLong
        ELSE pres = [lc |-> Newlines(pstream)
                              + (IF pstream # <<>> /\ pstream[Len(pstream)] # NL
                                 THEN 1 ELSE 0),
                     err |-> NoErr]

\* C20 witness: a line ended by `\r\n` and a byte after it count as two.
C20_TailCounted ==
    /\ Parsed
    /\ pstream = <<"s", "\r", NL, "s">>
    /\ pres = [lc |-> 2, err |-> NoErr]

-----------------------------------------------------------------------------
(* Properties of newStatus (specification Spec), continued.                *)

\* The order of the queries of one call.
QueryOrder == <<"status", "diff", "stash", "revparse">>

\* C21: within one call the commands are started in the order git status,
\* git diff --shortstat, git stash list, git rev-parse, each at most once,
\* each when no command is in flight and nothing has failed so far; after
\* a failure no command is started.
C21_QueriesInOrder ==
    [][started' # started =>
         /\ ~running
         /\ pc # "returned"
         /\ ret = Fail(NilError)
         /\ Len(started) < Len(QueryOrder)
         /\ started' = Append(started, started'[Len(started')])
         /\ started'[Len(started')].cmd = QueryOrder[Len(started')]
         /\ running']_vars

\* C21 witness: the four commands have been started and the call has
\* returned a Status.
C21_AllFourStarted ==
    /\ Returned
    /\ ~ret.isNil
    /\ Len(started) = 4
    /\ [i \in 1..4 |-> started[i].cmd] = QueryOrder

-----------------------------------------------------------------------------
(* Properties of Porcelain.parseFrom on record streams (specification      *)
(* SpecRecords), continued.                                                *)

\* `##` or two status letters, then a space.
Shaped(rec) ==
    /\ Len(rec) >= 3
    /\ rec[3] = SP
    /\ \/ rec[1] = "#" /\ rec[2] = "#"
       \/ rec[1] \in StatusLetters /\ rec[2] \in StatusLetters

C23_BareMarkerFails ==
    (Parsed /\ pin = Stream(<<<<"#", "#">>>>, <<>>)) => pres.err # NoErr

-----------------------------------------------------------------------------
(* Properties of treeStateFromDir (specification SpecTreeState),           *)
(* continued.                                                              *)

\* The values of TreeState.
TreeStateValues ==
    {"Default", "Rebasing", "AM", "AMRebase", "Merging", "CherryPicking",
     "Reverting", "Bisecting"}

\* C24: a marker whose existence check fails with an access error is
\* taken as absent: the result is one TreeState, the one of the directory
\* without that marker.
C24_AccessErrorMeansAbsent ==
    Detected =>
        /\ tstate \in TreeStateValues
        /\ tstate = treeStateFromDir({m \in Markers : stat[m] = "ok"})

\* C24 witness: rebase-merge cannot be looked at, MERGE_HEAD is there:
\* Merging.
C24_UnreadableRebaseMerge ==
    /\ Detected
    /\ stat["rebase-merge"] = "EACCES"
    /\ stat["rebase-apply"] = "ENOENT"
    /\ stat["MERGE_HEAD"] = "ok"
    /\ tstate = "Merging"

-----------------------------------------------------------------------------
(* Properties of newStatus (specification Spec): what is returned.         *)

\* C25: when the initial-commit flag is set and newStatus returns without
\* error, the Status holds the parsed Porcelain as it is, an empty HEAD,
\* NumStashed = 0, State = Default, Insertions = 0 and Deletions = 0.
C25_InitialStatusIsBare ==
    (Returned /\ ret.err = NilError /\ por.IsInitial) =>
        /\ ~ret.isNil
        /\ ret.st.Porcelain = por
        /\ ret.st.HEAD = <<>>
        /\ ret.st.NumStashed = 0
        /\ ret.st.State = "Default"
        /\ ret.st.Insertions = 0
        /\ ret.st.Deletions = 0

\* C25 witness: the diff query has found an insertion, and the Status
\* returned for the initial state has none.
C25_StatsLeftOut ==
    /\ ReturnedStatus
    /\ por.IsInitial
    /\ ret.st.Porcelain.LocalBranch # <<>>
    /\ stats.insertions > 0
    /\ ret.st.Insertions = 0

\* C26: newStatus never returns a nil Status with a nil error, nor a Status
\* with an error: exactly one of the two results is not nil.
C26_OneResultNotNil ==
    Returned => (ret.isNil <=> ret.err # NilError)

-----------------------------------------------------------------------------
(* Further properties of the parsers and of the shared env.                *)

\* C27: a file record whose first letter is a space never adds to
\* NumStaged, whatever its second letter.
C27_SpaceFirstNeverStaged ==
    (Parsed /\ SameFileRecords /\ pin.recs[1][1] = SP) => pres.p.NumStaged = 0

InEnv(e, name, value) == \E i \in 1..Len(e) : e[i] = <<name, value>>

\* C28: every command is started with an environment that holds LC_ALL=C
\* and GIT_OPTIONAL_LOCKS=0, and HOME=<value> when HOME is set, over every
\* interleaving of concurrent callers.
C28_CommandEnvComplete ==
    \A e \in cmdEnvs :
        /\ InEnv(e, "LC_ALL", "C")
        /\ InEnv(e, "GIT_OPTIONAL_LOCKS", "0")
        /\ home # Unset => InEnv(e, "HOME", home)

\* C29: after parseFrom on any stream into a fresh Porcelain, also a
\* stream with more than one `##` record, IsDetached and IsInitial are not
\* both true, and IsDetached comes with empty LocalBranch and RemoteBranch.
C29_DetachedInitialExclusive ==
    Parsed =>
        /\ ~(pres.p.IsDetached /\ pres.p.IsInitial)
        /\ pres.p.IsDetached => (pres.p.LocalBranch = <<>> /\ pres.p.RemoteBranch = <<>>)

-----------------------------------------------------------------------------
(* The tmux formater: Format renders a Status as one status-line string.   *)

\* The configured symbols; each is kept as one element named after its
\* field.
DefaultCfg ==
    [NoRemote |-> <<"NoRemote">>, Branch |-> <<"Branch">>, Staged |-> <<"Staged">>,
     Conflict |-> <<"Conflict">>, Modified |-> <<"Modified">>,
     Untracked |-> <<"Untracked">>, Stashed |-> <<"Stashed">>, Clean |-> <<"Clean">>,
     Ahead |-> <<"Ahead">>, Behind |-> <<"Behind">>, HashPrefix |-> <<"HashPrefix">>]

\* strconv.Itoa
FmtInt(n) == IF n < 0 THEN <<"-">> \o Itoa(0 - n) ELSE Itoa(n)

currentRef(f, st) ==
    IF st.Porcelain.IsDetached THEN f.HashPrefix \o st.HEAD ELSE st.Porcelain.LocalBranch

\* div is appended to for Behind and assigned for Ahead
divergence(f, st) ==
    LET div0 == <<>>
        div1 == IF st.Porcelain.BehindCount # 0
                THEN div0 \o f.Behind \o FmtInt(st.Porcelain.BehindCount) ELSE div0
        div2 == IF st.Porcelain.AheadCount # 0
                THEN f.Ahead \o FmtInt(st.Porcelain.AheadCount) ELSE div1
    IN IF div2 # <<>> THEN <<SP>> \o div2 ELSE div2

\* The text written for a tree state, before the current ref.
StateLabel(f, state) ==
    CASE state = "Default" -> f.Branch
      [] state = "Rebasing" -> <<"[", "r", "e", "b", "a", "s", "e", "]", SP>>
      [] state = "AM" -> <<"[", "a", "m", "]", SP>>
      [] state = "AMRebase" -> <<"[", "a", "m", "-", "r", "e", "b", "a", "s", "e", "]", SP>>
      [] state = "Merging" -> <<"[", "m", "e", "r", "g", "e", "]", SP>>
      [] state = "CherryPicking" -> <<"[", "c", "h", "e", "r", "r", "y", "-", "p", "i", "c", "k", "]", SP>>
      [] state = "Reverting" -> <<"[", "r", "e", "v", "e", "r", "t", "]", SP>>
      [] state = "Bisecting" -> <<"[", "b", "i", "s", "e", "c", "t", "]", SP>>

\* One count of the files part, left out when zero.
FormatCount(symbol, n) == IF n # 0 THEN symbol \o FmtInt(n) ELSE <<>>

Format(f, st) ==
    LET p == st.Porcelain
        tree == IF p.IsInitial
                THEN p.LocalBranch \o <<SP, "[", "n", "o", SP, "c", "o", "m", "m", "i", "t", "s", SP, "y", "e", "t", "]">>
                ELSE StateLabel(f, st.State) \o currentRef(f, st)
                     \o (IF p.RemoteBranch # <<>>
                         THEN <<".", ".">> \o p.RemoteBranch \o divergence(f, st)
                         ELSE <<>>)
        files == IF st.IsClean THEN f.Clean
                 ELSE FormatCount(f.Staged, p.NumStaged)
                      \o FormatCount(f.Conflict, p.NumConflicts)
                      \o FormatCount(f.Modified, p.NumModified)
                      \o FormatCount(f.Stashed, st.NumStashed)
                      \o FormatCount(f.Untracked, p.NumUntracked)
    IN [out |-> tree \o <<SP, "-", SP>> \o files, err |-> NoErr]

\* The Status values given to Format: what newStatus can return for a
\* branch with or without upstream, a detached HEAD, or no commit yet.
FormatInputs ==
    {LET p == [NewPorcelain EXCEPT
                  !.IsInitial = (head = "initial"),
                  !.IsDetached = (head = "detached"),
                  !.LocalBranch = IF head = "detached" THEN <<>> ELSE <<"m">>,
                  !.RemoteBranch = re,
                  !.AheadCount = IF re = <<>> THEN 0 ELSE a,
                  !.BehindCount = IF re = <<>> THEN 0 ELSE b,
                  !.NumModified = nm]
     IN IF head = "initial" THEN InitialStatus(p)
        ELSE FullStatus(p, state, HashLine, ns, [insertions |-> 0, deletions |-> 0]) :
        head \in {"branch", "detached", "initial"}, re \in {<<>>, <<"o">>},
        a \in Counts, b \in Counts, nm \in 0..1, ns \in 0..1,
        state \in {"Default", "Merging", "Rebasing"}}

-----------------------------------------------------------------------------
(* Specification of the tmux formater alone: Format applied to one Status. *)

InitFormat ==
    /\ pin \in FormatInputs
    /\ pstream = <<>>
    /\ ppc = "ready"
    /\ pres = [out |-> <<>>, err |-> NoErr]
    /\ StatusIdle
    /\ TreeIdle
    /\ EnvIdle

FormatStatus ==
    /\ ppc = "ready"
    /\ pres' = Format(DefaultCfg, pin)
    /\ ppc' = "done"
    /\ UNCHANGED <<pin, pstream>>
    /\ UNCHANGED <<svars, tvars, evars>>

NextFormat == FormatStatus

SpecFormat == InitFormat /\ [][NextFormat]_vars

\* C30: for a Status that is not initial and has a RemoteBranch, the output
\* holds the Behind symbol followed by BehindCount when BehindCount is not
\* zero, and the Ahead symbol followed by AheadCount when AheadCount is not
\* zero, also when both are not zero.
C30_BothDivergencesShown ==
    (Parsed /\ ~pin.Porcelain.IsInitial /\ pin.Porcelain.RemoteBranch # <<>>) =>
        /\ pin.Porcelain.BehindCount # 0 =>
             Contains(pres.out, DefaultCfg.Behind \o Itoa(pin.Porcelain.BehindCount))
        /\ pin.Porcelain.AheadCount # 0 =>
             Contains(pres.out, DefaultCfg.Ahead \o Itoa(pin.Porcelain.AheadCount))

====
